---- MODULE Spec2Model ----
(***************************************************************************)
(* Model of rss-feed-wrangler: the text utilities (text-splitter.ts), the  *)
(* feed transformer (feed-processor.ts), the hash functions (auth.ts) and  *)
(* the Lambda handler (feed-handler.ts).                                   *)
(*                                                                         *)
(* A JavaScript string is a sequence of one-character strings.  The        *)
(* regular expressions of the source are evaluated the way the engine      *)
(* evaluates them: leftmost match, greedy or lazy quantifiers as written.  *)
(***************************************************************************)
EXTENDS Integers, Sequences, FiniteSets, TLC

VARIABLES
  text,      \* the input string of the text utilities
  ntok,      \* how many tokens text was built from
  pc,        \* "input" while the text is typed, then the function called
  split,     \* the pair splitAtFirstParagraph returned
  ctype,     \* the label detectContentType returned
  stripped,  \* the string stripHtmlTags returned
  escaped,   \* the string escapeHtmlContent returned
  feedXml,   \* the document given to processAtomFeed, as the tree it parses to
  feed,      \* the tree after processAtomFeed has worked on it
  result,    \* what processAtomFeed returned: "feedXml" or "built"
  fpc,       \* "input" while the document is written, "done" after the call
  again,     \* the call of processAtomFeed on what the first call returned
  calls,     \* the calls of processAtomFeed that run at the same time
  trees,     \* the trees parseStringPromise made for them, by reference
  request,   \* event.queryStringParameters: feedUrl, hash
  feedSecret,\* process.env.FEED_SECRET
  hpc,       \* the handler: "start", "fetch", "text", "resume", "done"
  response,  \* the response the handler returned
  fetchCalls,\* how many times fetch was called
  settled,   \* what fetch settled with
  timer,     \* the 5000 ms timer of fetchAndProcessFeed
  auth       \* what a function of auth.ts returned

textVars == <<text, ntok, pc, split, ctype, stripped, escaped>>
feedVars == <<feedXml, feed, result, fpc, again, calls, trees>>
handlerVars ==
  <<request, feedSecret, hpc, response, fetchCalls, settled, timer, auth>>
vars ==
  <<text, ntok, pc, split, ctype, stripped, escaped, feedXml, feed, result,
    fpc, again,
    calls, trees,
    request, feedSecret, hpc, response, fetchCalls, settled, timer, auth>>

(***************************************************************************)
(* Bounds of the model.                                                    *)
(***************************************************************************)
\* number of tokens an input of splitAtFirstParagraph is built from
MaxTokens == 5

\* number of tokens an input of detectContentType / stripHtmlTags is built from
MaxMarkupTokens == 4

\* number of entries (Atom) or items (RSS) of a document
MaxEntries == 2

\* tokens of the texts given to escapeHtmlContent
MaxEscapeTokens == 4

(***************************************************************************)
(* Characters.                                                             *)
(***************************************************************************)
\* the white space String.prototype.trim removes, within the alphabet
WhiteSpace == {" ", "\n", "\r"}

\* the characters [a-z] matches under the i flag
Letters ==
  { "a", "b", "c", "d", "e", "f", "g", "h", "i", "j", "k", "l", "m",
    "n", "o", "p", "q", "r", "s", "t", "u", "v", "w", "x", "y", "z",
    "A", "B", "C", "D", "E", "F", "G", "H", "I", "J", "K", "L", "M",
    "N", "O", "P", "Q", "R", "S", "T", "U", "V", "W", "X", "Y", "Z" }

\* case folding of the i flag, for the letters of the patterns' literals
Lower(c) ==
  CASE c = "P" -> "p"
    [] c = "D" -> "d"
    [] c = "I" -> "i"
    [] c = "V" -> "v"
    [] OTHER -> c

\* s.substring(from) with from counted from 1
Substring(s, from) == SubSeq(s, from, Len(s))

\* String.prototype.trim
Trim(s) ==
  LET keep == {i \in 1..Len(s) : s[i] \notin WhiteSpace}
  IN  IF keep = {} THEN <<>>
      ELSE SubSeq(s, CHOOSE i \in keep : \A j \in keep : i <= j,
                     CHOOSE i \in keep : \A j \in keep : j <= i)

\* the literal lit (lower case) stands at position i of s, under the i flag
LiteralAt(s, i, lit) ==
  /\ i >= 1
  /\ i + Len(lit) - 1 <= Len(s)
  /\ \A k \in 1..Len(lit) : Lower(s[i + k - 1]) = lit[k]

RECURSIVE IndexOfChar(_, _, _)
\* position of the first c at or after from, 0 when there is none
IndexOfChar(s, c, from) ==
  IF from > Len(s) THEN 0
  ELSE IF s[from] = c THEN from
  ELSE IndexOfChar(s, c, from + 1)

RECURSIVE IndexOfLiteral(_, _, _)
\* position of the first occurrence of lit at or after from, 0 when none
IndexOfLiteral(s, lit, from) ==
  IF from + Len(lit) - 1 > Len(s) THEN 0
  ELSE IF LiteralAt(s, from, lit) THEN from
  ELSE IndexOfLiteral(s, lit, from + 1)

(***************************************************************************)
(* splitAtFirstParagraph                                                   *)
(***************************************************************************)
RECURSIVE NormalizeLineEndings(_)
\* text.replace(/\r\n/g, "\n")
NormalizeLineEndings(s) ==
  IF s = <<>> THEN <<>>
  ELSE IF Len(s) >= 2 /\ s[1] = "\r" /\ s[2] = "\n"
       THEN <<"\n">> \o NormalizeLineEndings(SubSeq(s, 3, Len(s)))
       ELSE <<s[1]>> \o NormalizeLineEndings(Tail(s))

ClosingP == <<"<", "/", "p", ">">>

\* variant: the group greedy, ([\s\S]*), so that the
\* match runs to the last "</p>"
PTagMatchEndAt_greedy(s, i) ==
  IF ~(i + 1 <= Len(s) /\ s[i] = "<" /\ Lower(s[i + 1]) = "p") THEN 0
  ELSE LET gt == IndexOfChar(s, ">", i + 2)
           closes == IF gt = 0 THEN {}
                     ELSE {c \in (gt + 1)..Len(s) : LiteralAt(s, c, ClosingP)}
       IN  IF closes = {} THEN 0
           ELSE (CHOOSE c \in closes : \A d \in closes : d <= c) + 3

\* /<p[^>]*>([\s\S]*?)<\/p>/i tried at position i: [^>]* runs to the first
\* ">" at or after i+2, the lazy group to the first "</p>" after that ">".
\* The value is the position of the last character matched, 0 for no match.
PTagMatchEndAt(s, i) ==
  IF ~(i + 1 <= Len(s) /\ s[i] = "<" /\ Lower(s[i + 1]) = "p") THEN 0
  ELSE LET gt == IndexOfChar(s, ">", i + 2)
       IN  IF gt = 0 THEN 0
           ELSE LET close == IndexOfLiteral(s, ClosingP, gt + 1)
                IN  IF close = 0 THEN 0 ELSE close + 3

RECURSIVE PTagMatchFrom(_, _)
\* the leftmost match at or after position i: [index, last], index = 0 if none
PTagMatchFrom(s, i) ==
  IF i > Len(s) THEN [index |-> 0, last |-> 0]
  ELSE LET e == PTagMatchEndAt(s, i)
       IN  IF e # 0 THEN [index |-> i, last |-> e]
           ELSE PTagMatchFrom(s, i + 1)

\* normalized.match(/<p[^>]*>([\s\S]*?)<\/p>/i)
PTagMatch(s) == PTagMatchFrom(s, 1)

RECURSIVE SkipNewlines(_, _)
\* the position after the run of "\n" that starts at i
SkipNewlines(s, i) ==
  IF i <= Len(s) /\ s[i] = "\n" THEN SkipNewlines(s, i + 1) ELSE i

RECURSIVE SplitOnBlankLines_exactlyTwo(_)
\* variant: split(/\n\n/), two newlines and no more
SplitOnBlankLines_exactlyTwo(s) ==
  LET at == IndexOfLiteral(s, <<"\n", "\n">>, 1)
  IN  IF at = 0 THEN <<s>>
      ELSE <<SubSeq(s, 1, at - 1)>>
             \o SplitOnBlankLines_exactlyTwo(Substring(s, at + 2))

RECURSIVE SplitOnBlankLines(_)
\* normalized.split(/\n\n+/)
SplitOnBlankLines(s) ==
  LET at == IndexOfLiteral(s, <<"\n", "\n">>, 1)
  IN  IF at = 0 THEN <<s>>
      ELSE <<SubSeq(s, 1, at - 1)>>
             \o SplitOnBlankLines(Substring(s, SkipNewlines(s, at)))

RECURSIVE JoinBlankLine(_)
\* parts.join("\n\n")
JoinBlankLine(parts) ==
  IF parts = <<>> THEN <<>>
  ELSE IF Len(parts) = 1 THEN parts[1]
  ELSE parts[1] \o <<"\n", "\n">> \o JoinBlankLine(Tail(parts))

\* the body of splitAtFirstParagraph after its guard: Rule 1, Rule 2 and the
\* fall back
SplitNonBlank(t) ==
  LET normalized == NormalizeLineEndings(t)
      pTagMatch  == PTagMatch(normalized)
      parts      == SplitOnBlankLines(normalized)
  IN  IF pTagMatch.index # 0
      THEN [firstParagraph |->
              Trim(SubSeq(normalized, pTagMatch.index, pTagMatch.last)),
            secondPart |->
              Trim(Substring(normalized, pTagMatch.last + 1))]
      ELSE IF Len(parts) > 1
      THEN [firstParagraph |-> Trim(parts[1]),
            secondPart |-> Trim(JoinBlankLine(Tail(parts)))]
      ELSE [firstParagraph |-> Trim(t), secondPart |-> <<>>]

\* variant: the guard returns the trimmed text
splitAtFirstParagraph_trimsBlank(t) ==
  IF t = <<>> \/ Len(Trim(t)) = 0
  THEN [firstParagraph |-> Trim(t), secondPart |-> <<>>]
  ELSE SplitNonBlank(t)

splitAtFirstParagraph(t) ==
  IF t = <<>> \/ Len(Trim(t)) = 0
  THEN [firstParagraph |-> t, secondPart |-> <<>>]
  ELSE SplitNonBlank(t)

(***************************************************************************)
(* detectContentType                                                       *)
(***************************************************************************)
OpeningDiv == <<"<", "d", "i", "v">>
ClosingDiv == <<"<", "/", "d", "i", "v", ">">>

\* trimmed.match(/^<div[^>]*>[\s\S]*<\/div>$/i): [^>]* runs to the first ">"
\* after "<div", and "</div>" has to end the string after that ">"
XhtmlDivMatch(trimmed) ==
  /\ LiteralAt(trimmed, 1, OpeningDiv)
  /\ LET gt == IndexOfChar(trimmed, ">", 5)
     IN  /\ gt # 0
         /\ Len(trimmed) - 5 >= gt + 1
         /\ LiteralAt(trimmed, Len(trimmed) - 5, ClosingDiv)

RECURSIVE HtmlTagMatchFrom_caseSensitive(_, _)
\* variant: the i flag left out of /<[a-z]+[^>]*>/
HtmlTagMatchFrom_caseSensitive(trimmed, i) ==
  IF i >= Len(trimmed) THEN FALSE
  ELSE IF /\ trimmed[i] = "<"
          /\ trimmed[i + 1] \in Letters
          /\ Lower(trimmed[i + 1]) = trimmed[i + 1]
          /\ IndexOfChar(trimmed, ">", i + 2) # 0
       THEN TRUE
       ELSE HtmlTagMatchFrom_caseSensitive(trimmed, i + 1)

RECURSIVE HtmlTagMatchFrom(_, _)
\* trimmed.match(/<[a-z]+[^>]*>/i), tried from position i on
HtmlTagMatchFrom(trimmed, i) ==
  IF i >= Len(trimmed) THEN FALSE
  ELSE IF /\ trimmed[i] = "<"
          /\ trimmed[i + 1] \in Letters
          /\ IndexOfChar(trimmed, ">", i + 2) # 0
       THEN TRUE
       ELSE HtmlTagMatchFrom(trimmed, i + 1)

detectContentType(content) ==
  LET trimmed == Trim(content)
  IN  IF XhtmlDivMatch(trimmed) THEN "xhtml"
      ELSE IF HtmlTagMatchFrom(trimmed, 1) THEN "html"
      ELSE "text"

(***************************************************************************)
(* stripHtmlTags                                                           *)
(***************************************************************************)
\* variant: the g flag left out of /<[^>]*>/g, so
\* that only the first tag is removed
RemoveTagsFrom_firstOnly(s, i) ==
  LET lts == {k \in i..Len(s) : s[k] = "<" /\ IndexOfChar(s, ">", k + 1) # 0}
  IN  IF lts = {} THEN SubSeq(s, i, Len(s))
      ELSE LET lt == CHOOSE k \in lts : \A j \in lts : k <= j
           IN  SubSeq(s, i, lt - 1)
                 \o Substring(s, IndexOfChar(s, ">", lt + 1) + 1)

RECURSIVE RemoveTagsFrom(_, _)
\* text.replace(/<[^>]*>/g, "") from position i on: a "<" that a ">"
\* follows is removed with everything up to the first such ">"
RemoveTagsFrom(s, i) ==
  IF i > Len(s) THEN <<>>
  ELSE LET gt == IndexOfChar(s, ">", i + 1)
       IN  IF s[i] = "<" /\ gt # 0
           THEN RemoveTagsFrom(s, gt + 1)
           ELSE <<s[i]>> \o RemoveTagsFrom(s, i + 1)

stripHtmlTags(t) == Trim(RemoveTagsFrom(t, 1))

(***************************************************************************)
(* escapeHtmlContent                                                       *)
(***************************************************************************)
EntityAmp == <<"&", "a", "m", "p", ";">>
EntityLt == <<"&", "l", "t", ";">>
EntityGt == <<"&", "g", "t", ";">>
EntityQuot == <<"&", "q", "u", "o", "t", ";">>
EntityApos == <<"&", "#", "3", "9", ";">>

RECURSIVE Replace(_, _, _)
\* s.replace(/c/g, entity)
Replace(s, c, entity) ==
  IF s = <<>> THEN <<>>
  ELSE (IF Head(s) = c THEN entity ELSE <<Head(s)>>)
         \o Replace(Tail(s), c, entity)

\* variant: the ampersands replaced last
escapeHtmlContent_ampersandLast(content) ==
  Replace(Replace(Replace(Replace(Replace(content,
    "<", EntityLt), ">", EntityGt), "\"", EntityQuot), "'", EntityApos),
    "&", EntityAmp)

\* escapeHtmlContent: the five replacements in the order of the source
escapeHtmlContent(content) ==
  Replace(Replace(Replace(Replace(Replace(content,
    "&", EntityAmp), "<", EntityLt), ">", EntityGt), "\"", EntityQuot),
    "'", EntityApos)

(***************************************************************************)
(* The paragraph splitter as a state machine: an input text is typed token *)
(* by token, then splitAtFirstParagraph is called on it.                   *)
(***************************************************************************)
SplitTokens ==
  { <<"<", "p", ">">>,
    <<"<", "/", "p", ">">>,
    <<"<", "P", " ", "c", ">", "b", "<", "/", "P", ">">>,
    <<"<", "p", "r", "e", ">">>,
    <<"a">>,
    <<" ">>,
    <<"\r", "\n">>,
    <<"\n", "\n">> }

NoSplit == [firstParagraph |-> <<>>, secondPart |-> <<>>]

\* no call of a text utility yet
TextInit ==
  /\ text = <<>>
  /\ ntok = 0
  /\ pc = "input"
  /\ split = NoSplit
  /\ ctype = "none"
  /\ stripped = <<>>
  /\ escaped = <<>>

\* no document yet
NoFeed == [root |-> "none", attrs |-> <<>>, entries |-> <<>>]

\* no second call yet
NoCall == [feedXml |-> NoFeed, feed |-> NoFeed, result |-> "none"]

\* no document handed to processAtomFeed
FeedIdle ==
  /\ feedXml = NoFeed
  /\ feed = NoFeed
  /\ result = "none"
  /\ fpc = "idle"
  /\ again = NoCall
  /\ calls = <<>>
  /\ trees = <<>>

\* a query parameter or environment variable: undefined, or a string
Undefined == [present |-> FALSE, value |-> <<>>]
Param(v) == [present |-> TRUE, value |-> v]

\* no response yet
NoResponse == [statusCode |-> 0]

\* fetch not settled
NoOutcome == [kind |-> "none"]

\* nothing computed by the functions of auth.ts yet
NoAuth == [op |-> "none"]

\* no request handed to the handler
HandlerIdle ==
  /\ request = [feedUrl |-> Undefined, hash |-> Undefined]
  /\ feedSecret = Undefined
  /\ hpc = "idle"
  /\ response = NoResponse
  /\ fetchCalls = 0
  /\ settled = NoOutcome
  /\ timer = "unset"
  /\ auth = NoAuth

Init ==
  /\ TextInit
  /\ FeedIdle
  /\ HandlerIdle

\* the caller extends the text by one token
TypeSplitToken ==
  /\ pc = "input"
  /\ ntok < MaxTokens
  /\ \E tok \in SplitTokens : text' = text \o tok
  /\ ntok' = ntok + 1
  /\ UNCHANGED <<pc, split, ctype, stripped, escaped, feedVars,
                 handlerVars>>

CallSplit ==
  /\ pc = "input"
  /\ split' = splitAtFirstParagraph(text)
  /\ pc' = "split"
  /\ UNCHANGED <<text, ntok, ctype, stripped, escaped, feedVars,
                 handlerVars>>

SplitNext == TypeSplitToken \/ CallSplit

\* the paragraph splitter on every text of at most MaxTokens tokens
Spec == Init /\ [][SplitNext]_vars

(***************************************************************************)
(* The classifier and the tag stripper as a state machine.                 *)
(***************************************************************************)
MarkupTokens ==
  { <<"<", "d", "i", "v", ">">>,
    <<"<", "/", "D", "I", "V", ">">>,
    <<"<", "D", "i", "v", " ", "c", ">">>,
    <<"<", "b", ">">>,
    <<"<">>,
    <<">">>,
    <<"a">>,
    <<" ">>,
    <<"&", "l", "t", ";">> }

TypeMarkupToken ==
  /\ pc = "input"
  /\ ntok < MaxMarkupTokens
  /\ \E tok \in MarkupTokens : text' = text \o tok
  /\ ntok' = ntok + 1
  /\ UNCHANGED <<pc, split, ctype, stripped, escaped, feedVars,
                 handlerVars>>

CallDetect ==
  /\ pc = "input"
  /\ ctype' = detectContentType(text)
  /\ pc' = "detect"
  /\ UNCHANGED <<text, ntok, split, stripped, escaped, feedVars,
                 handlerVars>>

CallStrip ==
  /\ pc = "input"
  /\ stripped' = stripHtmlTags(text)
  /\ pc' = "strip"
  /\ UNCHANGED <<text, ntok, split, ctype, escaped, feedVars,
                 handlerVars>>

MarkupNext == TypeMarkupToken \/ CallDetect \/ CallStrip

\* the classifier and the stripper on every text of at most MaxMarkupTokens
\* tokens
MarkupSpec == Init /\ [][MarkupNext]_vars
(***************************************************************************)
(* escapeHtmlContent as a state machine.                                   *)
(***************************************************************************)
EscapeTokens ==
  { <<"&">>,
    <<"<">>,
    <<">">>,
    <<"\"">>,
    <<"'">>,
    <<"a">>,
    <<";">>,
    <<"&", "l", "t", ";">>,
    <<"&", "#", "3", "9", ";">> }

TypeEscapeToken ==
  /\ pc = "input"
  /\ ntok < MaxEscapeTokens
  /\ \E tok \in EscapeTokens : text' = text \o tok
  /\ ntok' = ntok + 1
  /\ UNCHANGED <<pc, split, ctype, stripped, escaped, feedVars, handlerVars>>

CallEscape ==
  /\ pc = "input"
  /\ escaped' = escapeHtmlContent(text)
  /\ pc' = "escape"
  /\ UNCHANGED <<text, ntok, split, ctype, stripped, feedVars, handlerVars>>

EscapeNext == TypeEscapeToken \/ CallEscape

\* escapeHtmlContent on every text of at most MaxEscapeTokens tokens
EscapeSpec == Init /\ [][EscapeNext]_vars

(***************************************************************************)
(* processAtomFeed (feed-processor.ts).                                    *)
(*                                                                         *)
(* A document is the tree xml2js parses it to: the root element's name,    *)
(* the attributes of the root (the object $, kept as the list of its       *)
(* name/value pairs in insertion order), the entries (Atom) or items (RSS) *)
(* and meta, the other child elements of the feed or channel.  An entry    *)
(* has a title beside the fields the transformer works on.  A child        *)
(* element of an entry is absent, a string (an element with text only) or  *)
(* an element with a type attribute, { _, $: {type} }.  The character data *)
(* of feedXml is as written in the document, entities resolved; the        *)
(* parser's trim option is applied by the call.  A feed root carries its   *)
(* xmlns attribute, so that feed.feed is an object; the items of an rss    *)
(* root are those of its channel.                                          *)
(***************************************************************************)
Absent == [kind |-> "absent"]
Str(t) == [kind |-> "str", text |-> t]
Elem(t, type) == [kind |-> "elem", text |-> t, type |-> type]
\* several elements of one name, text only: the array of their texts, text
\* the first of them and rest the others
Arr(t, rest) == [kind |-> "arr", text |-> t, rest |-> rest]

\* the truthiness of a child element's value: undefined and "" are falsy
Truthy(v) == v.kind \in {"elem", "arr"} \/ (v.kind = "str" /\ v.text # <<>>)

ContentNamespace == "http://purl.org/rss/1.0/modules/content/"

\* the character data of the element is written in a CDATA section
InCData(v) == "cdata" \in DOMAIN v /\ v.cdata

\* parseStringPromise(feedXml, { trim: true, ... }) on one child element.
\* xml2js trims the character data of an element unless it is white space
\* only: that text is taken out of the node before the trim option is looked
\* at, and a node left with nothing (no attribute) becomes that very text
\* (the emptyTag option is '').  White space beside an attribute is dropped.
\* Text in a CDATA section is trimmed whatever it is.
ParseChild(v) ==
  IF v.kind = "absent" THEN v
  ELSE LET blank == Len(Trim(v.text)) = 0 /\ ~InCData(v)
           chars == IF blank /\ v.kind = "str" THEN v.text
                    ELSE Trim(v.text)
           kept(t) == IF Len(Trim(t)) = 0 THEN t ELSE Trim(t)
       IN  IF v.kind = "str" THEN Str(chars)
           ELSE IF v.kind = "arr"
           THEN Arr(kept(v.text), [k \in 1..Len(v.rest) |-> kept(v.rest[k])])
           ELSE Elem(chars, v.type)


ParseEntry(e) ==
  [title       |-> e.title,
   summary     |-> ParseChild(e.summary),
   description |-> ParseChild(e.description),
   content     |-> ParseChild(e.content),
   encoded     |-> ParseChild(e.encoded)]

\* parseStringPromise(feedXml, { trim: true, explicitArray: false, ... })
ParseFeed(xml) ==
  [xml EXCEPT !.entries = [k \in 1..Len(xml.entries) |-> ParseEntry(xml.entries[k])]]

\* typeof entry.summary === "string" ? entry.summary
\*   : Array.isArray(entry.summary) ? entry.summary[0] : ""
SummaryText(v) == IF v.kind \in {"str", "arr"} THEN v.text ELSE <<>>

\* variant: the label used as it is
ContentTypeAttribute_label(secondPart) == detectContentType(secondPart)

\* contentType === "text" ? "html" : contentType
ContentTypeAttribute(secondPart) ==
  LET contentType == detectContentType(secondPart)
  IN  IF contentType = "text" THEN "html" ELSE contentType

\* variant: the first paragraph written to summary
\* with its tags
ProcessAtomEntry_keepsTags(entry) ==
  IF ~Truthy(entry.summary) THEN entry
  ELSE LET summaryText == SummaryText(entry.summary)
       IN  IF summaryText = <<>> THEN entry
           ELSE LET sp == splitAtFirstParagraph(summaryText)
                IN  [entry EXCEPT
                       !.summary = Str(sp.firstParagraph),
                       !.content =
                          IF sp.secondPart # <<>>
                          THEN Elem(sp.secondPart,
                                    ContentTypeAttribute(sp.secondPart))
                          ELSE @]

\* variant: the entry made anew from the fields the callback works on, its
\* other child elements lost
ProcessAtomEntry_newObject(entry) ==
  IF ~Truthy(entry.summary) THEN entry
  ELSE LET summaryText == SummaryText(entry.summary)
       IN  IF summaryText = <<>> THEN entry
           ELSE LET sp == splitAtFirstParagraph(summaryText)
                    cleanedSummary == stripHtmlTags(sp.firstParagraph)
                IN  [title       |-> "",
                     summary     |-> Str(cleanedSummary),
                     description |-> entry.description,
                     encoded     |-> entry.encoded,
                     content     |->
                        IF sp.secondPart # <<>>
                        THEN Elem(sp.secondPart,
                                  ContentTypeAttribute(sp.secondPart))
                        ELSE entry.content]

\* the callback of entries.forEach, Atom
ProcessAtomEntry(entry) ==
  IF ~Truthy(entry.summary) THEN entry
  ELSE LET summaryText == SummaryText(entry.summary)
       IN  IF summaryText = <<>> THEN entry
           ELSE LET sp == splitAtFirstParagraph(summaryText)
                    cleanedSummary == stripHtmlTags(sp.firstParagraph)
                IN  [entry EXCEPT
                       !.summary = Str(cleanedSummary),
                       !.content =
                          IF sp.secondPart # <<>>
                          THEN Elem(sp.secondPart,
                                    ContentTypeAttribute(sp.secondPart))
                          ELSE @]

\* variant: description not written back
ProcessRssItem_summaryOnly(item) ==
  LET entry == IF ~Truthy(item.summary) /\ Truthy(item.description)
               THEN [item EXCEPT !.summary = item.description]
               ELSE item
  IN  IF ~Truthy(entry.summary) THEN entry
      ELSE LET summaryText == SummaryText(entry.summary)
           IN  IF summaryText = <<>> THEN entry
               ELSE LET sp == splitAtFirstParagraph(summaryText)
                        cleanedSummary == stripHtmlTags(sp.firstParagraph)
                    IN  [entry EXCEPT
                           !.summary = Str(cleanedSummary),
                           !.encoded =
                              IF sp.secondPart # <<>>
                              THEN Str(sp.secondPart)
                              ELSE @]

\* the callback of items.forEach, RSS 2.0
ProcessRssItem(item) ==
  LET entry == IF ~Truthy(item.summary) /\ Truthy(item.description)
               THEN [item EXCEPT !.summary = item.description]
               ELSE item
  IN  IF ~Truthy(entry.summary) THEN entry
      ELSE LET summaryText == SummaryText(entry.summary)
           IN  IF summaryText = <<>> THEN entry
               ELSE LET sp == splitAtFirstParagraph(summaryText)
                        cleanedSummary == stripHtmlTags(sp.firstParagraph)
                    IN  [entry EXCEPT
                           !.summary = Str(cleanedSummary),
                           !.description = Str(cleanedSummary),
                           !.encoded =
                              IF sp.secondPart # <<>>
                              THEN Str(sp.secondPart)
                              ELSE @]

\* feed.rss.$[name]: the value, or "" for undefined (both are falsy)
GetAttribute(attrs, name) ==
  LET at == {k \in 1..Len(attrs) : attrs[k].name = name}
  IN  IF at = {} THEN "" ELSE attrs[CHOOSE k \in at : TRUE].value

\* feed.rss.$[name] = value: an object holds a key once
SetAttribute(attrs, name, value) ==
  IF \E k \in 1..Len(attrs) : attrs[k].name = name
  THEN [k \in 1..Len(attrs) |->
          IF attrs[k].name = name THEN [attrs[k] EXCEPT !.value = value]
          ELSE attrs[k]]
  ELSE Append(attrs, [name |-> name, value |-> value])

\* variant: the attribute written without the test
EnsureContentNamespace_always(attrs) ==
  SetAttribute(attrs, "xmlns:content", ContentNamespace)

\* feed.rss.$ = feed.rss.$ || {}; if (!feed.rss.$["xmlns:content"]) ...
EnsureContentNamespace(attrs) ==
  IF GetAttribute(attrs, "xmlns:content") = ""
  THEN SetAttribute(attrs, "xmlns:content", ContentNamespace)
  ELSE attrs

\* requiresCDATA of the Builder: the text holds &, < or >
RequiresCData(t) == \E k \in 1..Len(t) : t[k] \in {"&", "<", ">"}

\* the Builder on one child element of an entry: no element for undefined;
\* the text written inside <![CDATA[ ]]> when it requires it (cdata: true),
\* as character data otherwise; the attribute of { _, $ } on the element;
\* one element for each string of an array
BuildChild(v) ==
  IF v.kind \in {"absent", "arr"} THEN v
  ELSE IF v.kind = "str"
  THEN [kind |-> "str", text |-> v.text, cdata |-> RequiresCData(v.text)]
  ELSE [kind |-> "elem", text |-> v.text, type |-> v.type,
        cdata |-> RequiresCData(v.text)]

BuildEntry(e) ==
  [title       |-> e.title,
   summary     |-> BuildChild(e.summary),
   description |-> BuildChild(e.description),
   content     |-> BuildChild(e.content),
   encoded     |-> BuildChild(e.encoded)]

\* builder.buildObject(feed): the document written from the tree
buildObject(tree) ==
  [root    |-> tree.root,
   attrs   |-> tree.attrs,
   meta    |-> tree.meta,
   wellFormed |-> TRUE,
   entries |-> [k \in 1..Len(tree.entries) |-> BuildEntry(tree.entries[k])]]

\* what processAtomFeed leaves when parseStringPromise rejects: the error
\* goes to the caller, there is no tree and no string
ParseError == [feed |-> NoFeed, result |-> "error"]

\* processAtomFeed after the parse: the tree as it is when the function
\* returns, and whether it returned its argument (feedXml) or the tree
\* rebuilt as XML (built)
TransformParsed(parsed) ==
  LET isAtom  == parsed.root = "feed"
      isRss   == parsed.root = "rss" /\ Len(parsed.entries) > 0
  IN  IF isAtom
      THEN IF Len(parsed.entries) = 0
           THEN [feed |-> parsed, result |-> "feedXml"]
           ELSE [feed |->
                   [parsed EXCEPT !.entries =
                      [k \in 1..Len(parsed.entries) |->
                         ProcessAtomEntry(parsed.entries[k])]],
                 result |-> "built"]
      ELSE IF isRss
      THEN [feed |->
              [parsed EXCEPT
                 !.attrs = EnsureContentNamespace(parsed.attrs),
                 !.entries =
                    [k \in 1..Len(parsed.entries) |->
                       ProcessRssItem(parsed.entries[k])]],
            result |-> "built"]
      ELSE [feed |-> parsed, result |-> "built"]

\* variant: the parse failure caught and the argument returned
processAtomFeed_catches(xml) ==
  IF ~xml.wellFormed THEN [feed |-> NoFeed, result |-> "feedXml"]
  ELSE TransformParsed(ParseFeed(xml))

\* processAtomFeed: parseStringPromise throws on a document that is not
\* well-formed, and nothing catches it
processAtomFeed(xml) ==
  IF ~xml.wellFormed THEN ParseError
  ELSE TransformParsed(ParseFeed(xml))

(***************************************************************************)
(* The feed transformer as a state machine: a document is written (its     *)
(* root, then entry after entry), then processAtomFeed is called on it.    *)
(***************************************************************************)
\* pieces of character data
TxtA == <<"a">>
TxtB == <<"b">>
TxtOld == <<"o">>
TxtBlankLine == <<"\n", "\n">>
TxtParagraphA == <<"<", "p", ">", "<", "b", ">", "a", "<", "/", "b", ">", "<", "/", "p", ">">>
TxtParagraphB == <<"<", "p", ">", "b", "<", "/", "p", ">">>
TxtDivB == <<"<", "d", "i", "v", ">", "b", "<", "/", "d", "i", "v", ">">>

\* the summaries of the Atom entries, as written in the document
AtomTexts ==
  { TxtA,
    <<" ", " ">>,
    <<" ">> \o TxtParagraphA \o <<"\n">> \o TxtParagraphB \o <<" ">>,
    TxtParagraphB,
    TxtA \o TxtBlankLine \o TxtB,
    TxtA \o TxtBlankLine \o TxtDivB,
    TxtA \o TxtParagraphB \o <<"\r", "\n">> \o TxtDivB,
    <<"<", "p", ">", "<", "/", "p", ">">> \o TxtB \o TxtBlankLine \o TxtA,
    <<"<", "p", ">">> \o TxtA \o TxtBlankLine \o TxtB
      \o <<"<", "/", "p", ">">> \o TxtParagraphB }

\* the summaries of the RSS items
RssSummaryTexts == { <<>>, TxtParagraphB \o TxtA }

\* the descriptions of the RSS items
RssDescriptionTexts ==
  { <<"\n">>,
    TxtA,
    TxtParagraphA \o TxtParagraphB,
    TxtA \o TxtBlankLine \o TxtDivB }

\* the entries: without summary, with a summary that has an attribute, with
\* a summary of text only, with or without content, and with two summaries
AtomEntries ==
  { [title |-> "T", summary |-> s, description |-> Absent,
     content |-> c, encoded |-> Absent] :
      s \in {Absent, Elem(TxtA \o TxtBlankLine \o TxtB, "html")}
              \union {Str(t) : t \in AtomTexts},
      c \in {Absent, Elem(TxtOld, "html")} }
  \union
  { [title |-> "T",
     summary |-> Arr(TxtParagraphA \o TxtParagraphB, <<TxtOld>>),
     description |-> Absent, content |-> Absent, encoded |-> Absent] }

\* an item of the RSS document with the child elements given
RssItem(s, d, c) ==
  [title |-> "T", summary |-> s, description |-> d,
   content |-> Absent, encoded |-> c]

\* the items: with a description only, with or without content:encoded, with
\* a description that has an attribute and no text, and with a summary
\* element beside the description
RssItems ==
  { RssItem(Absent, d, c) :
      d \in {Absent} \union {Str(t) : t \in RssDescriptionTexts},
      c \in {Absent, Str(TxtOld)} }
  \union
  { RssItem(Absent, Elem(<<>>, "html"), Absent) }
  \union
  { RssItem(Str(t), d, Absent) :
      t \in RssSummaryTexts,
      d \in {Absent, Str(TxtA \o TxtBlankLine \o TxtB)} }

Version == [name |-> "version", value |-> "2.0"]

\* the attributes of the rss root, as written in the document
RssRootAttributes ==
  { <<>>,
    <<Version>>,
    <<Version, [name |-> "xmlns:content", value |-> ContentNamespace]>>,
    <<[name |-> "xmlns:content", value |-> "urn:other"], Version>>,
    <<[name |-> "xmlns:content", value |-> ""], Version>> }

\* the child elements of the feed or channel beside the entries
Metadata == [title |-> "Test Feed", id |-> "urn:uuid:test-feed"]

\* a well-formed document with this root element and no entry yet
Document(root, attrs) ==
  [root |-> root, attrs |-> attrs, meta |-> Metadata, entries |-> <<>>,
   wellFormed |-> TRUE]

FeedInit ==
  /\ TextInit
  /\ feedXml \in
       {Document("feed", <<>>), Document("html", <<>>)}
       \union {Document("rss", a) : a \in RssRootAttributes}
  /\ feed = NoFeed
  /\ result = "none"
  /\ fpc = "input"
  /\ again = NoCall
  /\ calls = <<>>
  /\ trees = <<>>
  /\ HandlerIdle

\* one more <entry> in the Atom document
WriteAtomEntry ==
  /\ fpc = "input"
  /\ feedXml.wellFormed
  /\ feedXml.root = "feed"
  /\ Len(feedXml.entries) < MaxEntries
  /\ \E e \in AtomEntries :
       feedXml' = [feedXml EXCEPT !.entries = Append(@, e)]
  /\ UNCHANGED <<feed, result, fpc, again, calls, trees, textVars,
                 handlerVars>>

\* one more <item> in the channel of the RSS document
WriteRssItem ==
  /\ fpc = "input"
  /\ feedXml.wellFormed
  /\ feedXml.root = "rss"
  /\ Len(feedXml.entries) < MaxEntries
  /\ \E e \in RssItems :
       feedXml' = [feedXml EXCEPT !.entries = Append(@, e)]
  /\ UNCHANGED <<feed, result, fpc, again, calls, trees, textVars,
                 handlerVars>>

\* the document is cut off before the end tag of its root: not well-formed
CutDocument ==
  /\ fpc = "input"
  /\ feedXml.wellFormed
  /\ feedXml' = [feedXml EXCEPT !.wellFormed = FALSE]
  /\ UNCHANGED <<feed, result, fpc, again, calls, trees, textVars,
                 handlerVars>>

CallProcessAtomFeed ==
  /\ fpc = "input"
  /\ LET r == processAtomFeed(feedXml)
     IN  /\ feed' = r.feed
         /\ result' = r.result
  /\ fpc' = "done"
  /\ UNCHANGED <<feedXml, again, calls, trees, textVars, handlerVars>>

\* the caller hands the string the first call returned to processAtomFeed
\* once more: its own argument, or the document the Builder wrote
CallProcessAtomFeedAgain ==
  /\ fpc = "done"
  /\ result # "error"
  /\ again = NoCall
  /\ LET xml == IF result = "feedXml" THEN feedXml ELSE buildObject(feed)
         r   == processAtomFeed(xml)
     IN  again' = [feedXml |-> xml, feed |-> r.feed, result |-> r.result]
  /\ UNCHANGED <<feedXml, feed, result, fpc, calls, trees, textVars,
                 handlerVars>>

FeedNext ==
  \/ WriteAtomEntry
  \/ WriteRssItem
  \/ CutDocument
  \/ CallProcessAtomFeed
  \/ CallProcessAtomFeedAgain

\* processAtomFeed on every document of at most MaxEntries entries
FeedSpec == FeedInit /\ [][FeedNext]_vars

(***************************************************************************)
(* auth.ts: generateHash, validateHash, generateQueryString.               *)
(***************************************************************************)
\* the printable ASCII characters in code order, from the space (code 32);
\* the grave accent (code 96), which no string of the model holds, by name
Ascii == <<" ", "!", "\"", "#", "$", "%", "&", "'", "(", ")", "*", "+",
  ",", "-", ".", "/", "0", "1", "2", "3", "4", "5", "6", "7", "8", "9",
  ":", ";", "<", "=", ">", "?", "@", "A", "B", "C", "D", "E", "F", "G",
  "H", "I", "J", "K", "L", "M", "N", "O", "P", "Q", "R", "S", "T", "U",
  "V", "W", "X", "Y", "Z", "[", "\\", "]", "^", "_", "grave", "a", "b", "c",
  "d", "e", "f", "g", "h", "i", "j", "k", "l", "m", "n", "o", "p", "q",
  "r", "s", "t", "u", "v", "w", "x", "y", "z", "{", "|", "}", "~">>

\* the UTF-16 code unit of a character
CharCode(c) == 31 + CHOOSE k \in 1..Len(Ascii) : Ascii[k] = c

\* the digits of digest("hex")
HexDigits == <<"0", "1", "2", "3", "4", "5", "6", "7", "8", "9", "a", "b",
  "c", "d", "e", "f">>

RECURSIVE WeightedSum(_, _, _)
\* the sum of (i + k) * CharCode(s[i]) over the positions i of s from i on
WeightedSum(s, k, i) ==
  IF i > Len(s) THEN 0
  ELSE (i + k) * CharCode(s[i]) + WeightedSum(s, k, i + 1)

\* createHmac("sha256", secret).update(message).digest("hex"): 64 hexadecimal
\* digits, a function of key and message.  The digits stand in for those of
\* HMAC-SHA256; they tell apart the keys and messages of the model, which is
\* all the model takes from the library.
HmacSha256Hex(secret, message) ==
  [k \in 1..64 |->
     HexDigits[((31 * WeightedSum(secret, k, 1)
                 + WeightedSum(message, 2 * k, 1) + k * k) % 16) + 1]]

\* generateHash: the first 16 characters of the digest
generateHash(feedUrl, secret) == SubSeq(HmacSha256Hex(secret, feedUrl), 1, 16)

\* variant: the provided hash accepted when the expected hash starts with it
validateHash_prefix(feedUrl, providedHash, secret) ==
  LET expectedHash == generateHash(feedUrl, secret)
  IN  /\ Len(providedHash) <= Len(expectedHash)
      /\ SubSeq(expectedHash, 1, Len(providedHash)) = providedHash

\* validateHash: providedHash === expectedHash
validateHash(feedUrl, providedHash, secret) ==
  LET expectedHash == generateHash(feedUrl, secret)
  IN  providedHash = expectedHash

\* the characters encodeURIComponent leaves as they are
Unreserved ==
  Letters \union {"0", "1", "2", "3", "4", "5", "6", "7", "8", "9"}
          \union {"-", "_", ".", "!", "~", "*", "'", "(", ")"}

UpperHexDigits == <<"0", "1", "2", "3", "4", "5", "6", "7", "8", "9", "A",
  "B", "C", "D", "E", "F">>

\* "%" and the two hexadecimal digits of the character's code
PercentEncode(c) ==
  <<"%", UpperHexDigits[(CharCode(c) \div 16) + 1],
         UpperHexDigits[(CharCode(c) % 16) + 1]>>

RECURSIVE encodeURIComponent(_)
\* encodeURIComponent, on ASCII
encodeURIComponent(s) ==
  IF s = <<>> THEN <<>>
  ELSE (IF s[1] \in Unreserved THEN <<s[1]>> ELSE PercentEncode(s[1]))
       \o encodeURIComponent(Tail(s))

FeedUrlKey == <<"f", "e", "e", "d", "U", "r", "l", "=">>
HashKey == <<"&", "h", "a", "s", "h", "=">>

\* generateQueryString:
\* `feedUrl=${encodeURIComponent(feedUrl)}&hash=${encodeURIComponent(hash)}`
generateQueryString(feedUrl, secret) ==
  LET hash == generateHash(feedUrl, secret)
  IN  FeedUrlKey \o encodeURIComponent(feedUrl)
        \o HashKey \o encodeURIComponent(hash)

(***************************************************************************)
(* The Lambda handler (feed-handler.ts) and fetchAndProcessFeed            *)
(* (feed-processor.ts).                                                    *)
(*                                                                         *)
(* A query parameter or environment variable is undefined or a string.  A  *)
(* message is a sequence of words; a URL inside a message is one word, the *)
(* sequence of its characters.  The body of a response is the object given *)
(* to JSON.stringify, or the string fetchAndProcessFeed returned.          *)
(***************************************************************************)
\* !x for x a string or undefined
Falsy(p) == ~p.present \/ p.value = <<>>

SchemeChars == <<"+", "-", ".", "0", "1", "2", "3", "4", "5", "6", "7",
  "8", "9">>

\* the schemes new URL wants a host for
SpecialSchemes ==
  { <<"h", "t", "t", "p">>, <<"h", "t", "t", "p", "s">>, <<"f", "t", "p">>,
    <<"w", "s">>, <<"w", "s", "s">> }

RECURSIVE SkipSlashes(_, _)
\* the position after the slashes and backslashes at i
SkipSlashes(u, i) ==
  IF i <= Len(u) /\ u[i] \in {"/", "\\"} THEN SkipSlashes(u, i + 1) ELSE i

\* new URL(feedUrl) does not throw: the string, white space at its ends
\* aside, has a scheme (a letter, then letters, digits, + - .) before a
\* colon and, when the scheme is a special one, a host after the slashes
IsValidUrl(feedUrl) ==
  LET u     == Trim(feedUrl)
      colon == IndexOfChar(u, ":", 1)
      host  == SkipSlashes(u, colon + 1)
  IN  /\ colon > 1
      /\ u[1] \in Letters
      /\ \A k \in 2..(colon - 1) :
           u[k] \in Letters \/ \E j \in 1..Len(SchemeChars) : u[k] = SchemeChars[j]
      /\ SubSeq(u, 1, colon - 1) \in SpecialSchemes =>
           /\ host <= Len(u)
           /\ u[host] \notin {"?", "#", ":", "@", " ", "<", ">"}

\* the messages of the handler
MissingFeedUrl == <<"Missing", "required", "query", "parameter:", "feedUrl">>
MissingHash == <<"Missing", "required", "query", "parameter:", "hash">>
InvalidFeedUrl ==
  <<"Invalid", "feedUrl", "parameter", "-", "must", "be", "a", "valid", "URL">>
InvalidHash == <<"Invalid", "hash", "-", "request", "not", "authorized">>
FailedToProcess == <<"Failed", "to", "process", "feed">>

JsonHeaders == [name \in {"Content-Type"} |-> "application/json"]

FeedHeaders ==
  [name \in {"Content-Type", "Cache-Control"} |->
     IF name = "Content-Type" THEN "application/atom+xml; charset=utf-8"
     ELSE "max-age=3600"]

\* { statusCode, body: JSON.stringify({ error }), headers }
ErrorResponse(statusCode, error) ==
  [statusCode |-> statusCode,
   body       |-> [kind |-> "json", error |-> error],
   headers    |-> JsonHeaders]

\* the response of the catch block
FailureResponse(message) ==
  [statusCode |-> 500,
   body       |-> [kind |-> "json", error |-> FailedToProcess,
                   details |-> message],
   headers    |-> JsonHeaders]

\* the response with the processed feed
FeedResponse(processedFeed) ==
  [statusCode |-> 200,
   body       |-> [kind |-> "xml", string |-> processedFeed],
   headers    |-> FeedHeaders]

\* variant: the URL parsed before the hash parameter is looked for
handlerBeforeFetch_urlFirst(event, secret) ==
  IF Falsy(event.feedUrl) THEN ErrorResponse(400, MissingFeedUrl)
  ELSE IF ~IsValidUrl(event.feedUrl.value)
  THEN ErrorResponse(400, InvalidFeedUrl)
  ELSE IF Falsy(event.hash) THEN ErrorResponse(400, MissingHash)
  ELSE IF /\ ~Falsy(secret)
          /\ ~validateHash(event.feedUrl.value, event.hash.value, secret.value)
  THEN ErrorResponse(403, InvalidHash)
  ELSE NoResponse

\* handler, up to the call of fetchAndProcessFeed: the response it returns,
\* or NoResponse when it goes on to fetch
handlerBeforeFetch(event, secret) ==
  IF Falsy(event.feedUrl) THEN ErrorResponse(400, MissingFeedUrl)
  ELSE IF Falsy(event.hash) THEN ErrorResponse(400, MissingHash)
  ELSE IF ~IsValidUrl(event.feedUrl.value)
  THEN ErrorResponse(400, InvalidFeedUrl)
  ELSE IF /\ ~Falsy(secret)
          /\ ~validateHash(event.feedUrl.value, event.hash.value, secret.value)
  THEN ErrorResponse(403, InvalidHash)
  ELSE NoResponse

\* what fetch settles with: a rejection (an Error with its message, or a
\* value that is no Error), or a response
Rejection(message) == [kind |-> "reject", isError |-> TRUE, message |-> message]
RejectionNoError == [kind |-> "reject", isError |-> FALSE, message |-> <<>>]
HttpResponse(status, statusText, body) ==
  [kind |-> "response", ok |-> status \in 200..299, status |-> status,
   statusText |-> statusText, text |-> body]

\* the message of the error the parser rejects with
ParserMessage == <<"Unclosed", "root", "tag">>

\* throw new Error(`Failed to fetch feed from ${feedUrl}: ${message}`)
FetchFailure(feedUrl, message) ==
  [threw |-> TRUE,
   message |-> <<"Failed", "to", "fetch", "feed", "from", feedUrl, ":">>
                 \o message]

\* variant: the error of the transformer given back as the feed
fetchAndProcessFeed_swallows(feedUrl, outcome) ==
  IF outcome.kind = "reject"
  THEN FetchFailure(feedUrl,
                    IF outcome.isError THEN outcome.message
                    ELSE <<"Unknown", "error", "fetching", "feed">>)
  ELSE IF ~outcome.ok
  THEN FetchFailure(feedUrl,
                    <<"Failed", "to", "fetch", "feed:", "HTTP",
                      outcome.status, outcome.statusText>>)
  ELSE [threw |-> FALSE, value |-> processAtomFeed(outcome.text)]

\* fetchAndProcessFeed, given what fetch settles with: the string returned
\* (as processAtomFeed gives it) or the error thrown
fetchAndProcessFeed(feedUrl, outcome) ==
  IF outcome.kind = "reject"
  THEN FetchFailure(feedUrl,
                    IF outcome.isError THEN outcome.message
                    ELSE <<"Unknown", "error", "fetching", "feed">>)
  ELSE IF ~outcome.ok
  THEN FetchFailure(feedUrl,
                    <<"Failed", "to", "fetch", "feed:", "HTTP",
                      outcome.status, outcome.statusText>>)
  ELSE LET processed == processAtomFeed(outcome.text)
       IN  IF processed.result = "error"
           THEN [threw |-> TRUE, message |-> ParserMessage]
           ELSE [threw |-> FALSE, value |-> processed]

\* handler, from the call of fetchAndProcessFeed on: the 200 response, or
\* the 500 response of the catch block
handlerAfterFetch(event, outcome) ==
  LET processedFeed == fetchAndProcessFeed(event.feedUrl.value, outcome)
  IN  IF processedFeed.threw
      THEN FailureResponse(processedFeed.message)
      ELSE FeedResponse(processedFeed.value)

(***************************************************************************)
(* The handler as a state machine: a request arrives, the handler answers  *)
(* it at once or calls fetch; fetch settles and the handler answers.       *)
(***************************************************************************)
UrlA == <<"h", "t", "t", "p", ":", "/", "/", "a", "/", "f">>
UrlB == <<"h", "t", "t", "p", "s", ":", "/", "/", "b", "/", "f", "?", "c",
  "=", "t", "&", "h", "a", "s", "h", "=", "0", "0", "0", "0", "0", "0",
  "0", "0", "0", "0", "0", "0", "0", "0", "0", "0">>
UrlNoHost == <<"h", "t", "t", "p", ":", "/", "/">>
UrlNoScheme == <<"n", "o", "t", "-", "a", "-", "v", "a", "l", "i", "d",
  "-", "u", "r", "l">>
SecretA == <<"m", "y", "-", "s", "e", "c", "r", "e", "t">>
SecretB == <<"s", "e", "c", "r", "e", "t", "2">>
ZeroHash == <<"0", "0", "0", "0", "0", "0", "0", "0", "0", "0", "0", "0",
  "0", "0", "0", "0">>

\* the feedUrl query parameter of the requests
FeedUrlParameters ==
  {Undefined, Param(<<>>), Param(UrlNoScheme), Param(UrlNoHost),
   Param(UrlA), Param(UrlB)}

\* the hash query parameter of the requests: none, empty, wrong, made for
\* another URL or with another feedSecret, right
HashParameters ==
  {Undefined, Param(<<>>), Param(ZeroHash)}
    \union {Param(generateHash(u, s)) : u \in {UrlA, UrlB},
                                        s \in {SecretA, SecretB}}

\* process.env.FEED_SECRET
Secrets == {Undefined, Param(<<>>), Param(SecretA)}

\* the documents a feed source answers with
FetchedDocuments ==
  { Document("feed", <<>>),
    [Document("feed", <<>>) EXCEPT !.entries =
       << [title |-> "T", summary |-> Str(TxtA \o TxtBlankLine \o TxtB),
           description |-> Absent, content |-> Absent,
           encoded |-> Absent] >>],
    [Document("feed", <<>>) EXCEPT !.wellFormed = FALSE],
    Document("rss", <<Version>>) }

\* the message of the error a fetch rejects with when its signal is aborted
AbortMessage == <<"This", "operation", "was", "aborted">>

\* what fetch settles with: a network error, the abort of the 5000 ms
\* timer, an error without message, a value that is no Error, a response
FetchOutcomes ==
  { Rejection(<<"Network", "error">>),
    Rejection(AbortMessage),
    Rejection(<<>>),
    RejectionNoError,
    HttpResponse(404, "Not Found", NoFeed),
    HttpResponse(500, "Internal Server Error", NoFeed) }
    \union {HttpResponse(200, "OK", d) : d \in FetchedDocuments}

HandlerInit ==
  /\ TextInit
  /\ FeedIdle
  /\ request \in [feedUrl : FeedUrlParameters, hash : HashParameters]
  /\ feedSecret \in Secrets
  /\ hpc = "start"
  /\ response = NoResponse
  /\ fetchCalls = 0
  /\ settled = NoOutcome
  /\ timer = "unset"
  /\ auth = NoAuth

\* handler, lines 11-67: it returns a 400 or 403 response
HandlerRefuses ==
  /\ hpc = "start"
  /\ handlerBeforeFetch(request, feedSecret) # NoResponse
  /\ response' = handlerBeforeFetch(request, feedSecret)
  /\ hpc' = "done"
  /\ UNCHANGED <<request, feedSecret, fetchCalls, settled, timer, auth,
                 textVars, feedVars>>

\* handler, lines 11-70: the request passes, fetchAndProcessFeed calls fetch
HandlerFetches ==
  /\ hpc = "start"
  /\ handlerBeforeFetch(request, feedSecret) = NoResponse
  /\ timer' = "armed"
  /\ fetchCalls' = fetchCalls + 1
  /\ hpc' = "fetch"
  /\ UNCHANGED <<request, feedSecret, response, settled, auth,
                 textVars, feedVars>>

\* fetch settles; fetchAndProcessFeed and the handler run to the end
FetchSettles ==
  /\ hpc = "fetch"
  /\ \E outcome \in FetchOutcomes :
       /\ settled' = outcome
       /\ timer' = IF outcome.kind = "response" THEN "cleared"
                   ELSE IF outcome = Rejection(AbortMessage) THEN "fired"
                   ELSE timer
       /\ response' = handlerAfterFetch(request, outcome)
  /\ hpc' = "done"
  /\ UNCHANGED <<request, feedSecret, fetchCalls, auth, textVars, feedVars>>

HandlerNext == HandlerRefuses \/ HandlerFetches \/ FetchSettles

\* the handler on every request, feedSecret and outcome of fetch
HandlerSpec == HandlerInit /\ [][HandlerNext]_vars

(***************************************************************************)
(* fetchAndProcessFeed event by event: the timer is set and fetch called   *)
(* (lines 160-169); the promise of fetch settles when the server's status  *)
(* line and headers have arrived, when the connection fails or when the    *)
(* signal is aborted; the promise of response.text() settles when the body *)
(* has arrived whole, when the connection fails or when the signal is      *)
(* aborted.  A promise that has settled resumes the function that awaits   *)
(* it before any timer can fire.                                           *)
(***************************************************************************)
\* status lines a server answers with
StatusLines ==
  { [status |-> 200, statusText |-> "OK"],
    [status |-> 404, statusText |-> "Not Found"],
    [status |-> 500, statusText |-> "Internal Server Error"] }

\* a response whose body has not been read
Headers(line) ==
  [kind |-> "headers", ok |-> line.status \in 200..299,
   status |-> line.status, statusText |-> line.statusText]

\* the message of the error response.text() rejects with when the
\* connection ends before the body does
TerminatedMessage == <<"terminated">>

\* the promise of fetch resolves: status line and headers have arrived
FetchResolves ==
  /\ hpc = "fetch"
  /\ \E line \in StatusLines : settled' = Headers(line)
  /\ hpc' = "resume"
  /\ UNCHANGED <<request, feedSecret, response, fetchCalls, timer, auth,
                 textVars, feedVars>>

\* the promise of fetch rejects for a reason of the network
FetchRejects ==
  /\ hpc = "fetch"
  /\ \E outcome \in FetchOutcomes :
       /\ outcome.kind = "reject"
       /\ outcome # Rejection(AbortMessage)
       /\ settled' = outcome
  /\ hpc' = "resume"
  /\ UNCHANGED <<request, feedSecret, response, fetchCalls, timer, auth,
                 textVars, feedVars>>

\* the timer set in line 161 fires: controller.abort(), and the promise
\* awaited with that signal, if any, rejects
TimerFires ==
  /\ timer = "armed"
  /\ hpc # "resume"
  /\ timer' = "fired"
  /\ IF hpc \in {"fetch", "text"}
     THEN /\ settled' = Rejection(AbortMessage)
          /\ hpc' = "resume"
     ELSE UNCHANGED <<settled, hpc>>
  /\ UNCHANGED <<request, feedSecret, response, fetchCalls, auth,
                 textVars, feedVars>>

\* the promise of response.text() resolves: the body has arrived
BodyArrives ==
  /\ hpc = "text"
  /\ \E d \in FetchedDocuments :
       settled' = HttpResponse(settled.status, settled.statusText, d)
  /\ hpc' = "resume"
  /\ UNCHANGED <<request, feedSecret, response, fetchCalls, timer, auth,
                 textVars, feedVars>>

\* the promise of response.text() rejects: the connection ended
BodyFails ==
  /\ hpc = "text"
  /\ settled' = Rejection(TerminatedMessage)
  /\ hpc' = "resume"
  /\ UNCHANGED <<request, feedSecret, response, fetchCalls, timer, auth,
                 textVars, feedVars>>

\* fetchAndProcessFeed is resumed.  After fetch resolved: clearTimeout (line
\* 171), then the throw of line 174 or the call of response.text() (line
\* 179).  After response.text() resolved: processAtomFeed (line 186).  After
\* a rejection: the catch of line 180.  The handler returns its response
\* unless response.text() is awaited.
FetchResumes ==
  /\ hpc = "resume"
  /\ timer' = IF settled.kind = "headers" THEN "cleared" ELSE timer
  /\ IF settled.kind = "headers" /\ settled.ok
     THEN /\ hpc' = "text"
          /\ UNCHANGED <<settled, response>>
     ELSE LET outcome == IF settled.kind = "headers"
                         THEN HttpResponse(settled.status, settled.statusText,
                                           NoFeed)
                         ELSE settled
          IN  /\ settled' = outcome
              /\ response' = handlerAfterFetch(request, outcome)
              /\ hpc' = "done"
  /\ UNCHANGED <<request, feedSecret, fetchCalls, auth, textVars, feedVars>>

FetchNext ==
  \/ HandlerRefuses
  \/ HandlerFetches
  \/ FetchResolves
  \/ FetchRejects
  \/ TimerFires
  \/ BodyArrives
  \/ BodyFails
  \/ FetchResumes

\* the handler with the events of the fetch one by one
FetchSpec == HandlerInit /\ [][FetchNext]_vars

\* a step of FetchResumes and no other: the handler leaves "resume"
Resumption == hpc = "resume" /\ hpc' \in {"text", "done"}

\* the handler runs when it is invoked, a function whose promise has
\* settled is resumed and a timer that is set fires; what the server and the
\* network do is theirs to decide
FetchLiveSpec ==
  /\ FetchSpec
  /\ WF_vars(HandlerRefuses)
  /\ WF_vars(HandlerFetches)
  /\ WF_hpc(Resumption)
  /\ WF_vars(TimerFires)

(***************************************************************************)
(* Two calls of processAtomFeed at the same time.  The function has one    *)
(* suspension point, the await of line 34: a call parses its argument and  *)
(* is suspended; when it is resumed it works on the tree the parser made   *)
(* for it, in place, builds the XML and returns.  A tree is an object:     *)
(* trees holds the objects, a call holds the reference to its own.         *)
(***************************************************************************)
\* the documents of the concurrent calls
ConcurrentDocuments ==
  FetchedDocuments
    \union
  { [Document("feed", <<>>) EXCEPT !.entries =
       << [title |-> "T", summary |-> Str(TxtParagraphA \o TxtParagraphB),
           description |-> Absent, content |-> Absent,
           encoded |-> Absent] >>],
    [Document("rss", <<Version>>) EXCEPT !.entries =
       << RssItem(Absent, Str(TxtA \o TxtBlankLine \o TxtDivB), Absent) >>] }

\* a call that has not begun
NewCall(xml) ==
  [cpc |-> "start", feedXml |-> xml, ref |-> 0, result |-> "none",
   returned |-> NoFeed]

ConcurrentInit ==
  /\ TextInit
  /\ feedXml = NoFeed
  /\ feed = NoFeed
  /\ result = "none"
  /\ fpc = "idle"
  /\ again = NoCall
  /\ calls \in [1..2 -> {NewCall(d) : d \in ConcurrentDocuments}]
  /\ trees = <<>>
  /\ HandlerIdle

\* variant: feed a binding of the module, the same for every call
LocalFeed_shared(heap, ref) == heap[1]

\* const feed (line 34) as the resumed call reads it: its own tree
LocalFeed(heap, ref) == heap[ref]

\* processAtomFeed is called: parseStringPromise parses the argument into a
\* new tree, or rejects; the call is suspended at the await
CallSuspends(c) ==
  /\ calls[c].cpc = "start"
  /\ IF calls[c].feedXml.wellFormed
     THEN /\ trees' = Append(trees, ParseFeed(calls[c].feedXml))
          /\ calls' = [calls EXCEPT ![c].cpc = "awaiting",
                                    ![c].ref = Len(trees) + 1]
     ELSE /\ calls' = [calls EXCEPT ![c].cpc = "awaiting"]
          /\ UNCHANGED trees
  /\ UNCHANGED <<feedXml, feed, result, fpc, again, textVars, handlerVars>>

\* the call is resumed: the rejection is thrown, or lines 40-149 run on the
\* tree, which the callbacks write to, and the function returns
CallResumes(c) ==
  /\ calls[c].cpc = "awaiting"
  /\ IF calls[c].ref = 0
     THEN /\ calls' = [calls EXCEPT ![c].cpc = "done", ![c].result = "error"]
          /\ UNCHANGED trees
     ELSE LET r == TransformParsed(LocalFeed(trees, calls[c].ref))
          IN  /\ trees' = [trees EXCEPT ![calls[c].ref] = r.feed]
              /\ calls' = [calls EXCEPT
                             ![c].cpc = "done",
                             ![c].result = r.result,
                             ![c].returned =
                                IF r.result = "feedXml" THEN calls[c].feedXml
                                ELSE buildObject(r.feed)]
  /\ UNCHANGED <<feedXml, feed, result, fpc, again, textVars, handlerVars>>

ConcurrentNext == \E c \in 1..2 : CallSuspends(c) \/ CallResumes(c)

\* two calls of processAtomFeed, interleaved in every way
ConcurrentSpec == ConcurrentInit /\ [][ConcurrentNext]_vars

(***************************************************************************)
(* The functions of auth.ts, called on a URL, a hash and a feedSecret.         *)
(***************************************************************************)
\* the hashes given to validateHash: the right one, the right one cut short
\* or in capitals or with the rest of the digest, one for another URL or
\* feedSecret, a wrong one, none
ProvidedHashes(feedUrl, secretValue) ==
  LET right == generateHash(feedUrl, secretValue)
  IN  { right,
        SubSeq(right, 1, 15),
        [k \in 1..16 |-> IF right[k] \in Letters
                         THEN UpperHexDigits[CHOOSE j \in 1..16 :
                                               HexDigits[j] = right[k]]
                         ELSE right[k]],
        HmacSha256Hex(secretValue, feedUrl),
        generateHash(UrlA, SecretB),
        generateHash(UrlB, SecretA),
        ZeroHash,
        <<>> }

AuthInit ==
  /\ TextInit
  /\ FeedIdle
  /\ \E u \in {UrlA, UrlB, UrlNoScheme}, s \in {SecretA, SecretB} :
       /\ feedSecret = Param(s)
       /\ \E h \in ProvidedHashes(u, s) :
            request = [feedUrl |-> Param(u), hash |-> Param(h)]
  /\ hpc = "auth"
  /\ response = NoResponse
  /\ fetchCalls = 0
  /\ settled = NoOutcome
  /\ timer = "unset"
  /\ auth = NoAuth

CallGenerateHash ==
  /\ hpc = "auth"
  /\ auth' = [op |-> "generateHash",
              value |-> generateHash(request.feedUrl.value, feedSecret.value)]
  /\ hpc' = "authDone"
  /\ UNCHANGED <<request, feedSecret, response, fetchCalls, settled,
                 timer, textVars, feedVars>>

CallValidateHash ==
  /\ hpc = "auth"
  /\ auth' = [op |-> "validateHash",
              value |-> validateHash(request.feedUrl.value, request.hash.value,
                                     feedSecret.value)]
  /\ hpc' = "authDone"
  /\ UNCHANGED <<request, feedSecret, response, fetchCalls, settled,
                 timer, textVars, feedVars>>

CallGenerateQueryString ==
  /\ hpc = "auth"
  /\ auth' = [op |-> "generateQueryString",
              value |-> generateQueryString(request.feedUrl.value,
                                            feedSecret.value)]
  /\ hpc' = "authDone"
  /\ UNCHANGED <<request, feedSecret, response, fetchCalls, settled,
                 timer, textVars, feedVars>>

AuthNext == CallGenerateHash \/ CallValidateHash \/ CallGenerateQueryString

\* the functions of auth.ts on every URL, hash and feedSecret of the model
AuthSpec == AuthInit /\ [][AuthNext]_vars

(***************************************************************************)
(* Vocabulary of the claims, stated on positions of a string and not by    *)
(* running the functions above.                                            *)
(***************************************************************************)
\* empty or white space only
IsBlank(s) == \A i \in 1..Len(s) : s[i] \in WhiteSpace

\* x is y without its leading and trailing white space
IsTrimOf(x, y) ==
  /\ x = <<>> \/ (x[1] \notin WhiteSpace /\ x[Len(x)] \notin WhiteSpace)
  /\ \E lead \in 0..Len(y) :
       /\ lead + Len(x) <= Len(y)
       /\ x = SubSeq(y, lead + 1, lead + Len(x))
       /\ \A k \in 1..Len(y) :
            (k <= lead \/ k > lead + Len(x)) => y[k] \in WhiteSpace

\* a closing p tag, in either letter case, stands at position c
IsClosingPAt(s, c) ==
  /\ c >= 1
  /\ c + 3 <= Len(s)
  /\ s[c] = "<"
  /\ s[c + 1] = "/"
  /\ s[c + 2] \in {"p", "P"}
  /\ s[c + 3] = ">"

\* positions i..e of s hold a paragraph element as Rule 1 delimits it: an
\* opening tag ("<", the letter p in either case, any characters but ">",
\* then ">") through the nearest closing p tag after it
IsParagraphElement(s, i, e) ==
  /\ i >= 1
  /\ e <= Len(s)
  /\ i + 1 <= e
  /\ s[i] = "<"
  /\ s[i + 1] \in {"p", "P"}
  /\ \E g \in (i + 2)..(e - 4) :
       /\ s[g] = ">"
       /\ \A k \in (i + 2)..(g - 1) : s[k] # ">"
       /\ IsClosingPAt(s, e - 3)
       /\ \A c \in (g + 1)..(e - 4) : ~IsClosingPAt(s, c)

HasParagraphElement(s) ==
  \E i \in {k \in 1..Len(s) : s[k] = "<"} :
    \E e \in {k \in i..Len(s) : s[k] = ">"} : IsParagraphElement(s, i, e)

\* a run of two or more newlines starts at position a
BlankLineAt(s, a) == a >= 1 /\ a + 1 <= Len(s) /\ s[a] = "\n" /\ s[a + 1] = "\n"

HasBlankLine(s) == \E a \in 1..Len(s) : BlankLineAt(s, a)

\* the characters of s at the positions in keep, in order
Restrict(s, keep) ==
  [n \in 1..Cardinality(keep) |->
     s[CHOOSE k \in keep : Cardinality({j \in keep : j < k}) = n - 1]]

\* s with every run of two or more newlines cut down to two newlines
RunsCutToTwo(s) ==
  Restrict(s, {k \in 1..Len(s) :
                 ~(k >= 3 /\ s[k] = "\n" /\ s[k - 1] = "\n" /\ s[k - 2] = "\n")})

C3_WitnessSingleParagraph ==
  /\ pc = "split"
  /\ ~IsBlank(text)
  /\ text[1] = " "
  /\ text[Len(text)] = " "
  /\ \E k \in 1..Len(text) : text[k] = "\r"
  /\ split.secondPart = <<>>
  /\ \E k \in 1..Len(split.firstParagraph) : split.firstParagraph[k] = "\r"
  /\ ~HasParagraphElement(text)
\* the characters of s that are not white space, in order
NonWhiteSpace(s) == SelectSeq(s, LAMBDA c : c \notin WhiteSpace)

C25_ExactParagraphTagName ==
  pc = "split" =>
    LET n == NormalizeLineEndings(text)
    IN  (~IsBlank(text) /\ HasParagraphElement(n)) =>
          /\ Len(split.firstParagraph) >= 3
          /\ split.firstParagraph[1] = "<"
          /\ split.firstParagraph[2] \in {"p", "P"}
          /\ split.firstParagraph[3] \in WhiteSpace \union {">"}

(***************************************************************************)
(* Claims on detectContentType and stripHtmlTags, checked under MarkupSpec.*)
(***************************************************************************)
\* an opening div tag, in any letter case, with or without attributes,
\* starts at position o
IsOpeningDivAt(s, o) ==
  /\ o >= 1
  /\ o + 4 <= Len(s)
  /\ s[o] = "<"
  /\ s[o + 1] \in {"d", "D"}
  /\ s[o + 2] \in {"i", "I"}
  /\ s[o + 3] \in {"v", "V"}
  /\ s[o + 4] \in WhiteSpace \union {">"}
  /\ \E g \in (o + 4)..Len(s) : s[g] = ">"

\* a closing div tag, in any letter case, starts at position c
IsClosingDivAt(s, c) ==
  /\ c >= 1
  /\ c + 5 <= Len(s)
  /\ s[c] = "<"
  /\ s[c + 1] = "/"
  /\ s[c + 2] \in {"d", "D"}
  /\ s[c + 3] \in {"i", "I"}
  /\ s[c + 4] \in {"v", "V"}
  /\ s[c + 5] = ">"

\* the number of div elements open after position k
DivDepth(s, k) ==
  Cardinality({o \in 1..k : IsOpeningDivAt(s, o)})
    - Cardinality({c \in 1..k : IsClosingDivAt(s, c)})

\* s is one div element: it opens with a div tag, and the closing tag that
\* closes that element is the end of the string
IsSingleDivElement(s) ==
  /\ IsOpeningDivAt(s, 1)
  /\ IsClosingDivAt(s, Len(s) - 5)
  /\ \A c \in 1..(Len(s) - 6) : IsClosingDivAt(s, c) => DivDepth(s, c) > 0

\* "<" immediately followed by a letter occurs in s
HasBracketLetter(s) ==
  \E i \in 1..(Len(s) - 1) : s[i] = "<" /\ s[i + 1] \in Letters

\* a tag occurs in s: "<", a letter, and a ">" somewhere after them
HasCompleteTag(s) ==
  \E i \in 1..(Len(s) - 1) :
    /\ s[i] = "<"
    /\ s[i + 1] \in Letters
    /\ \E g \in (i + 2)..Len(s) : s[g] = ">"

\* C4 (as claimed): the label is xhtml exactly when the trimmed text is one
\* div element that spans the whole string; a div element followed by more
\* markup is not xhtml.
C4_XhtmlIffSingleDivElement ==
  pc = "detect" => (ctype = "xhtml" <=> IsSingleDivElement(Trim(text)))

\* C5 (as claimed): the label is one of text, html, xhtml; a text that is
\* not xhtml is html exactly when its trimmed form holds "<" immediately
\* followed by a letter; the label of a text is the label of its trimmed
\* form.
C5_HtmlIffBracketLetter ==
  pc = "detect" =>
    /\ ctype \in {"text", "html", "xhtml"}
    /\ ctype # "xhtml" => (ctype = "html" <=> HasBracketLetter(Trim(text)))
    /\ ctype = detectContentType(Trim(text))

\* C5 (amended): the label is one of text, html, xhtml; a text that is not
\* xhtml is html exactly when its trimmed form holds a complete tag: "<"
\* immediately followed by a letter and, somewhere after them, ">"; the
\* label of a text is the label of its trimmed form.
C5_HtmlIffCompleteTag ==
  pc = "detect" =>
    /\ ctype \in {"text", "html", "xhtml"}
    /\ ctype # "xhtml" => (ctype = "html" <=> HasCompleteTag(Trim(text)))
    /\ ctype = detectContentType(Trim(text))

\* C5 witness: "<" and a letter with no ">" after them is labelled text,
\* inside surrounding white space
C5_Witness ==
  /\ pc = "detect"
  /\ ctype = "text"
  /\ HasBracketLetter(text)
  /\ Len(text) > 0
  /\ text[1] = " "

\* C6: the stripped text has no white space at either end, holds no "<"
\* with a ">" after it, is the trimmed input when the input holds no angle
\* bracket (entities stay as they are), and stripping it again changes
\* nothing.
C6_StripRemovesTagsAndTrims ==
  pc = "strip" =>
    /\ stripped = <<>> \/ /\ stripped[1] \notin WhiteSpace
                          /\ stripped[Len(stripped)] \notin WhiteSpace
    /\ ~\E i \in 1..Len(stripped) : \E j \in (i + 1)..Len(stripped) :
          stripped[i] = "<" /\ stripped[j] = ">"
    /\ (\A k \in 1..Len(text) : text[k] \notin {"<", ">"}) =>
          IsTrimOf(stripped, text)
    /\ stripHtmlTags(stripped) = stripped

\* C6 witness: a text with an entity, a tag and a lone ">" stripped down to
\* the entity and the ">"
C6_Witness ==
  /\ pc = "strip"
  /\ \E k \in 1..Len(text) : text[k] = "&"
  /\ \E k \in 1..(Len(text) - 2) : SubSeq(text, k, k + 2) = <<"<", "b", ">">>
  /\ \E k \in 1..Len(stripped) : stripped[k] = "&"
  /\ \E k \in 1..Len(stripped) : stripped[k] = ">"
  /\ Len(stripped) < Len(text)
(***************************************************************************)
(* Claims on processAtomFeed, checked under FeedSpec.                      *)
(***************************************************************************)
\* the entries of the document as the parser hands them over
ParsedEntry(k) == ParseEntry(feedXml.entries[k])

IsNonEmptyString(v) == v.kind = "str" /\ v.text # <<>>

\* t has no paragraph boundary: neither a paragraph element nor a blank
\* line, or it is one paragraph element and nothing else
IsSingleParagraph(t) ==
  LET n == NormalizeLineEndings(t)
  IN  \/ ~HasParagraphElement(n) /\ ~HasBlankLine(n)
      \/ /\ IsParagraphElement(n, 1, Len(n))
         /\ ~HasBlankLine(n)

\* processAtomFeed was called and did not throw
Returned == fpc = "done" /\ result # "error"

AtomDone == Returned /\ feedXml.root = "feed"
RssDone == Returned /\ feedXml.root = "rss"

\* C7: Atom path.  For every entry whose parsed summary is a non-empty
\* string, summary becomes stripHtmlTags(firstParagraph); the content
\* element is written exactly when secondPart is not empty, with secondPart
\* itself (markup kept) as its body, and is left as it was otherwise; a
\* single-paragraph summary becomes its own tag-stripped text.
C7_AtomSummaryAndContent ==
  AtomDone =>
    /\ Len(feed.entries) = Len(feedXml.entries)
    /\ \A k \in 1..Len(feedXml.entries) :
         LET before == ParsedEntry(k)
             after  == feed.entries[k]
             sp     == splitAtFirstParagraph(before.summary.text)
         IN  IsNonEmptyString(before.summary) =>
               /\ result = "built"
               /\ after.summary = Str(stripHtmlTags(sp.firstParagraph))
               /\ sp.secondPart # <<>> =>
                    /\ after.content.kind = "elem"
                    /\ after.content.text = sp.secondPart
               /\ sp.secondPart = <<>> => after.content = before.content
               /\ IsSingleParagraph(before.summary.text) =>
                    /\ after.summary = Str(stripHtmlTags(before.summary.text))
                    /\ after.content = before.content

\* C7 witness: a transformed Atom document with a two-paragraph entry, whose
\* summary lost its tags and whose content keeps them, and a
\* single-paragraph entry without content
C7_Witness ==
  /\ AtomDone
  /\ Len(feed.entries) = 2
  /\ feedXml.entries[1].summary.kind = "str"
  /\ feed.entries[1].summary = Str(TxtA)
  /\ feed.entries[1].content.kind = "elem"
  /\ feed.entries[1].content.text = TxtParagraphB
  /\ feedXml.entries[1].content = Absent
  /\ feedXml.entries[2].summary = Str(TxtParagraphB)
  /\ feed.entries[2].summary = Str(TxtB)
  /\ feed.entries[2].content = Absent

\* C8: every content element the Atom path writes has the type attribute
\* xhtml when detectContentType(secondPart) is xhtml and html otherwise,
\* never text.
C8_ContentTypeAttribute ==
  AtomDone =>
    \A k \in 1..Len(feedXml.entries) :
      LET before == ParsedEntry(k)
          after  == feed.entries[k]
          sp     == splitAtFirstParagraph(before.summary.text)
      IN  (IsNonEmptyString(before.summary) /\ sp.secondPart # <<>>) =>
            /\ after.content.kind = "elem"
            /\ after.content.type \in {"html", "xhtml"}
            /\ after.content.type = "xhtml"
                 <=> detectContentType(sp.secondPart) = "xhtml"

\* C8 witness: a plain remainder wrapped as type html in one entry, a div
\* remainder as type xhtml in the other
C8_Witness ==
  /\ AtomDone
  /\ Len(feed.entries) = 2
  /\ feed.entries[1].content = Elem(TxtB, "html")
  /\ feed.entries[2].content = Elem(TxtDivB, "xhtml")
  /\ feedXml.entries[1].content # feed.entries[1].content
  /\ feedXml.entries[2].content # feed.entries[2].content

\* C9: RSS path.  The source of an item is its summary or, when it has no
\* summary, its description.  Every item with a non-empty string as source
\* ends with summary and description both equal to the tag-stripped first
\* paragraph, and with content:encoded a plain string (no type attribute)
\* equal to secondPart when secondPart is not empty, left as it was
\* otherwise.
C9_RssSummaryDescriptionEncoded ==
  RssDone =>
    /\ Len(feed.entries) = Len(feedXml.entries)
    /\ \A k \in 1..Len(feedXml.entries) :
         LET before == ParsedEntry(k)
             after  == feed.entries[k]
             source == IF IsNonEmptyString(before.summary)
                       THEN before.summary
                       ELSE before.description
             sp     == splitAtFirstParagraph(source.text)
         IN  IsNonEmptyString(source) =>
               /\ result = "built"
               /\ after.summary = Str(stripHtmlTags(sp.firstParagraph))
               /\ after.description = after.summary
               /\ sp.secondPart # <<>> => after.encoded = Str(sp.secondPart)
               /\ sp.secondPart = <<>> => after.encoded = before.encoded
               /\ after.content = before.content

\* C9 witness: an item with a description and no summary, whose summary and
\* description end as the first paragraph and whose content:encoded is the
\* second paragraph, tags kept
C9_Witness ==
  /\ RssDone
  /\ Len(feed.entries) >= 1
  /\ feedXml.entries[1].summary = Absent
  /\ feedXml.entries[1].description = Str(TxtParagraphA \o TxtParagraphB)
  /\ feedXml.entries[1].encoded = Absent
  /\ feed.entries[1].summary = Str(TxtA)
  /\ feed.entries[1].description = Str(TxtA)
  /\ feed.entries[1].encoded = Str(TxtParagraphB)

\* the values of the attributes called name, in order
AttributeValues(attrs, name) ==
  LET at == SelectSeq(attrs, LAMBDA a : a.name = name)
  IN  [k \in 1..Len(at) |-> at[k].value]

\* item k received a content:encoded field
ReceivedEncoded(k) ==
  /\ feed.entries[k].encoded.kind = "str"
  /\ feed.entries[k].encoded # ParsedEntry(k).encoded

\* C10 (as claimed): when one or more items received content:encoded, the
\* rss root has exactly one xmlns:content attribute: the content-module URI
\* when the document did not declare the attribute, the document's own value
\* when it did.
C10_OneNamespaceDeclaration ==
  (RssDone /\ \E k \in 1..Len(feed.entries) : ReceivedEncoded(k)) =>
    LET declared == AttributeValues(feedXml.attrs, "xmlns:content")
    IN  AttributeValues(feed.attrs, "xmlns:content")
          = IF declared = <<>> THEN <<ContentNamespace>> ELSE declared

\* C10 (amended): when one or more items received content:encoded, the rss
\* root has exactly one xmlns:content attribute: the content-module URI when
\* the document did not declare the attribute or declared it with an empty
\* value, the document's own value when it declared a non-empty one.
C10_OneNamespaceDeclarationNonEmpty ==
  (RssDone /\ \E k \in 1..Len(feed.entries) : ReceivedEncoded(k)) =>
    LET declared == AttributeValues(feedXml.attrs, "xmlns:content")
    IN  AttributeValues(feed.attrs, "xmlns:content")
          = IF declared = <<>> \/ declared = <<"">>
            THEN <<ContentNamespace>>
            ELSE declared

\* C10 witness: two items received content:encoded and the root, which
\* declared no attribute at all, has the one xmlns:content
C10_Witness ==
  /\ RssDone
  /\ Len(feed.entries) = 2
  /\ ReceivedEncoded(1)
  /\ ReceivedEncoded(2)
  /\ feedXml.attrs = <<>>
  /\ feed.attrs = <<[name |-> "xmlns:content", value |-> ContentNamespace]>>

\* a child element without text: missing, empty or white space only
IsBlankChild(v) == v.kind = "absent" \/ IsBlank(v.text)

\* entry k of the document has no description text: its summary (Atom), its
\* summary and its description (RSS)
HasBlankDescription(k) ==
  LET e == feedXml.entries[k]
  IN  /\ IsBlankChild(e.summary)
      /\ feedXml.root = "rss" => IsBlankChild(e.description)

\* C11: an entry or item whose description field is empty, white space only
\* or missing is, after processAtomFeed, exactly what the parser made of it:
\* no field changed, no field added (no content, no content:encoded), and the
\* call ends normally with every entry still there.
C11_BlankDescriptionUntouched ==
  (fpc = "done" /\ feedXml.wellFormed) =>
    /\ result \in {"feedXml", "built"}
    /\ Len(feed.entries) = Len(feedXml.entries)
    /\ \A k \in 1..Len(feedXml.entries) :
         HasBlankDescription(k) => feed.entries[k] = ParsedEntry(k)

\* the document is no feed the transformer works on: its root is neither
\* feed nor rss, or it is a feed or an rss channel without entries or items
IsNoOpDocument ==
  \/ feedXml.root \notin {"feed", "rss"}
  \/ Len(feedXml.entries) = 0

\* C12: in the no-op cases (a well-formed document that is neither Atom
\* nor RSS with items, or a feed of either dialect with no entry or item)
\* processAtomFeed returns the string it was given, not a document built
\* anew, and no error.
C12_NoOpReturnsInput ==
  (fpc = "done" /\ feedXml.wellFormed /\ IsNoOpDocument) =>
    result = "feedXml"

\* the second call has returned
CalledAgain == fpc = "done" /\ again # NoCall

\* C13: a second transform is a no-op.  processAtomFeed on what
\* processAtomFeed returned leaves every entry or item as the parser hands
\* it over: same summary, same description, same content or content:encoded,
\* no field added.
C13_SecondTransformNoOp ==
  CalledAgain =>
    /\ Len(again.feed.entries) = Len(again.feedXml.entries)
    /\ \A k \in 1..Len(again.feedXml.entries) :
         again.feed.entries[k] = ParseEntry(again.feedXml.entries[k])

\* the attributes of the root other than the content namespace
OtherAttributes(attrs) == SelectSeq(attrs, LAMBDA a : a.name # "xmlns:content")

C15_ParseFailureAllOrNothing ==
  fpc = "done" =>
    /\ result \in {"feedXml", "built", "error"}
    /\ result = "error" <=> ~feedXml.wellFormed
    /\ result = "error" => feed = NoFeed
    /\ result # "error" =>
         /\ feed.root = feedXml.root
         /\ Len(feed.entries) = Len(feedXml.entries)

\* C15 witness: a document with an entry, cut off, was handed to
\* processAtomFeed, which ended with the error
C15_Witness ==
  /\ fpc = "done"
  /\ ~feedXml.wellFormed
  /\ Len(feedXml.entries) >= 1
  /\ result = "error"
  /\ feed = NoFeed

(***************************************************************************)
(* Claims on the handler, checked under HandlerSpec.                       *)
(***************************************************************************)
\* the handler has returned
Responded == hpc = "done"

\* the response is a JSON error of this status whose message holds the words
IsJsonError(statusCode, words) ==
  /\ response.statusCode = statusCode
  /\ response.body.kind = "json"
  /\ IndexOfLiteral(response.body.error, words, 1) # 0

\* C16: a request without feedUrl (none, or empty) is answered 400 with a
\* JSON error naming feedUrl, and a request whose feedUrl is no parseable URL
\* is answered 400 with an error holding "Invalid feedUrl", whatever hash
\* and secret are.
C16_FeedUrlValidation ==
  Responded =>
    /\ Falsy(request.feedUrl) => IsJsonError(400, <<"feedUrl">>)
    /\ (~Falsy(request.feedUrl) /\ ~IsValidUrl(request.feedUrl.value)) =>
         IsJsonError(400, <<"Invalid", "feedUrl">>)

\* the secret is configured
HasSecret == ~Falsy(feedSecret)

\* the request has a feedUrl that is a parseable URL
HasValidFeedUrl == ~Falsy(request.feedUrl) /\ IsValidUrl(request.feedUrl.value)

\* the request carries the hash of its feedUrl under the configured secret
HasMatchingHash ==
  /\ request.hash.present
  /\ request.hash.value
       = SubSeq(HmacSha256Hex(feedSecret.value, request.feedUrl.value), 1, 16)

\* C17: with FEED_SECRET configured, a request with a valid feedUrl whose
\* hash is missing or is not generateHash(feedUrl, secret) is answered 403
\* and fetch is not called; a request with the matching hash goes on to
\* fetch.
C17_HashAuthentication ==
  (hpc \in {"fetch", "done"} /\ HasSecret /\ HasValidFeedUrl) =>
    /\ ~HasMatchingHash =>
         /\ fetchCalls = 0
         /\ IsJsonError(403, <<"hash">>)
    /\ HasMatchingHash => fetchCalls = 1

\* C18: without FEED_SECRET every request with a valid feedUrl goes on to
\* fetch and is never answered 400 or 403, whether its hash is wrong or
\* absent.
C18_NoSecretNoHashCheck ==
  (hpc \in {"fetch", "done"} /\ ~HasSecret /\ HasValidFeedUrl) =>
    /\ fetchCalls = 1
    /\ response.statusCode \notin {400, 403}

\* fetch failed, or what it delivered cannot be transformed
IsFailure(outcome) ==
  \/ outcome.kind = "reject"
  \/ outcome.kind = "response" /\ outcome.status \notin 200..299
  \/ outcome.kind = "response" /\ ~outcome.text.wellFormed

\* C19: the handler always returns a response, with a status among 200, 400,
\* 403, 500, a body that is a string and not empty, and a Content-Type
\* header; when fetch failed (network error, status outside 2xx, timeout)
\* or the transformer threw, the response is 500, its body the JSON of
\* error "Failed to process feed" and of details, the message, not empty.
C19_AlwaysAResponse ==
  Responded =>
    /\ response.statusCode \in {200, 400, 403, 500}
    /\ "Content-Type" \in DOMAIN response.headers
    /\ response.headers["Content-Type"] # ""
    /\ \/ response.body.kind = "json" /\ response.body.error # <<>>
       \/ /\ response.body.kind = "xml"
          /\ response.body.string.result \in {"feedXml", "built"}
    /\ (settled # NoOutcome /\ IsFailure(settled)) =>
         /\ response.statusCode = 500
         /\ response.body.kind = "json"
         /\ response.body.error = FailedToProcess
         /\ "details" \in DOMAIN response.body
         /\ response.body.details # <<>>

\* C19 witness: the source answered with a document cut off, the parser
\* threw, and the handler returned the 500 response with the parser's
\* message
C19_Witness ==
  /\ Responded
  /\ settled.kind = "response"
  /\ settled.status = 200
  /\ ~settled.text.wellFormed
  /\ response.statusCode = 500
  /\ response.body.details = ParserMessage

\* C19 witness of the network error: fetch rejected and the handler returned
\* the 500 response
C19_WitnessFetchRejected ==
  /\ Responded
  /\ settled.kind = "reject"
  /\ response.statusCode = 500
  /\ Len(response.body.details) > 7

(***************************************************************************)
(* Claims on auth.ts, checked under AuthSpec.                              *)
(***************************************************************************)
\* h is, character by character, the first 16 digits of the digest of the
\* URL under the secret
IsHashOf(h, feedUrl, secretValue) ==
  /\ Len(h) = 16
  /\ \A k \in 1..16 : h[k] = HmacSha256Hex(secretValue, feedUrl)[k]

\* 16 digits [a-f0-9] stand at position i of q
SixteenHexAt(q, i) ==
  /\ i + 15 <= Len(q)
  /\ \A k \in i..(i + 15) : \E j \in 1..16 : q[k] = HexDigits[j]

HashEquals == <<"h", "a", "s", "h", "=">>

\* the hash in a query string, as queryString.match(/hash=([a-f0-9]{16})/)
\* finds it: the 16 digits after the first "hash=" that has them; empty when
\* there is none
EmbeddedHash(q) ==
  LET at == {i \in 1..Len(q) :
               /\ i + 4 <= Len(q)
               /\ SubSeq(q, i, i + 4) = HashEquals
               /\ SixteenHexAt(q, i + 5)}
  IN  IF at = {} THEN <<>>
      ELSE LET first == CHOOSE i \in at : \A j \in at : i <= j
           IN  SubSeq(q, first + 5, first + 20)

\* C20: validateHash(feedUrl, providedHash, secret) is true exactly when
\* providedHash is generateHash(feedUrl, secret), the first 16 hexadecimal
\* digits of the digest; the hash generateHash returns validates, and so
\* does the hash that generateQueryString(feedUrl, secret) embeds, against
\* the same URL and secret.
C20_ValidateIffGenerated ==
  hpc = "authDone" =>
    LET feedUrl == request.feedUrl.value
        key     == feedSecret.value
    IN  /\ auth.op = "validateHash" =>
             auth.value = IsHashOf(request.hash.value, feedUrl, key)
        /\ auth.op = "generateHash" =>
             /\ IsHashOf(auth.value, feedUrl, key)
             /\ validateHash(feedUrl, auth.value, key)
        /\ auth.op = "generateQueryString" =>
             /\ IsHashOf(EmbeddedHash(auth.value), feedUrl, key)
             /\ validateHash(feedUrl, EmbeddedHash(auth.value), key)

\* C20 witness: validateHash refused the first 15 digits of the right hash
C20_Witness ==
  /\ hpc = "authDone"
  /\ auth.op = "validateHash"
  /\ auth.value = FALSE
  /\ Len(request.hash.value) = 15
  /\ request.hash.value
       = SubSeq(generateHash(request.feedUrl.value, feedSecret.value), 1, 15)

\* C20 witness of the accepted hash: validateHash accepted the right hash
C20_WitnessAccepted ==
  /\ hpc = "authDone"
  /\ auth.op = "validateHash"
  /\ auth.value = TRUE
  /\ request.feedUrl.value = UrlB

\* C20 witness of the query string: the URL that holds "hash=" and 16
\* zeros went into a query string whose first such pattern is the hash
C20_WitnessQueryString ==
  /\ hpc = "authDone"
  /\ auth.op = "generateQueryString"
  /\ request.feedUrl.value = UrlB
  /\ EmbeddedHash(auth.value) # ZeroHash
  /\ EmbeddedHash(auth.value) = generateHash(UrlB, feedSecret.value)

(***************************************************************************)
(* Claims on fetchAndProcessFeed event by event, checked under             *)
(* FetchLiveSpec.                                                          *)
(***************************************************************************)
\* fetchAndProcessFeed was called and has not completed
FetchPending == hpc \in {"fetch", "resume", "text"}

\* the call completed with the "Failed to fetch feed" error, which the
\* handler reports as the details of its 500 response
ReportedFailedToFetch ==
  /\ response.statusCode = 500
  /\ response.body.kind = "json"
  /\ SubSeq(response.body.details, 1, 4) = <<"Failed", "to", "fetch", "feed">>

\* C21: every call of fetchAndProcessFeed eventually completes, with a
\* result or an error, even when the server stalls forever before the
\* headers or while sending the body; a fetch the timer has abandoned is
\* reported as a "Failed to fetch feed" failure and no document of it is
\* transformed.
C21_BoundedFetch ==
  /\ [](FetchPending => <>Responded)
  /\ []((Responded /\ timer = "fired") =>
          /\ ReportedFailedToFetch
          /\ settled.kind = "reject")

(***************************************************************************)
(* Claims on concurrent calls of processAtomFeed, checked under            *)
(* ConcurrentSpec.                                                         *)
(***************************************************************************)
\* what the call returns when it runs alone: the string, or nothing when it
\* throws
ReturnedAlone(xml) ==
  LET alone == processAtomFeed(xml)
  IN  IF alone.result = "error" THEN NoFeed
      ELSE IF alone.result = "feedXml" THEN xml
      ELSE buildObject(alone.feed)

\* C22: two calls of processAtomFeed interleaved at their suspension points
\* are independent: each has a parsed tree of its own, a suspended call
\* finds its tree as the parser left it, and each call's outcome and
\* returned string are those of the call run alone.
C22_ConcurrentCallsIndependent ==
  \A c \in DOMAIN calls :
    /\ \A d \in DOMAIN calls :
         (c # d /\ calls[c].ref # 0) => calls[c].ref # calls[d].ref
    /\ (calls[c].cpc = "awaiting" /\ calls[c].ref # 0) =>
         trees[calls[c].ref] = ParseFeed(calls[c].feedXml)
    /\ calls[c].cpc = "done" =>
         /\ calls[c].result = processAtomFeed(calls[c].feedXml).result
         /\ calls[c].returned = ReturnedAlone(calls[c].feedXml)

\* C22 witness: the second call parsed its document first and is still
\* suspended, the first call began after it and has returned its built
\* feed; the two documents differ and both have an entry to split
C22_Witness ==
  /\ DOMAIN calls = 1..2
  /\ calls[2].cpc = "awaiting"
  /\ calls[2].ref = 1
  /\ calls[1].cpc = "done"
  /\ calls[1].ref = 2
  /\ calls[1].result = "built"
  /\ calls[1].feedXml # calls[2].feedXml
  /\ Len(calls[1].feedXml.entries) > 0
  /\ Len(calls[2].feedXml.entries) > 0
  /\ calls[1].returned.entries # calls[1].feedXml.entries

\* C22 witness of the end: both calls have returned, each its own built feed
C22_WitnessBothDone ==
  /\ DOMAIN calls = 1..2
  /\ \A c \in 1..2 : calls[c].cpc = "done" /\ calls[c].result = "built"
  /\ calls[1].returned # calls[2].returned

(***************************************************************************)
(* Claims on escapeHtmlContent, checked under EscapeSpec.                  *)
(***************************************************************************)
\* the entity the claim gives for a character, or the character
EntityOf(c) ==
  IF c = "&" THEN <<"&", "a", "m", "p", ";">>
  ELSE IF c = "<" THEN <<"&", "l", "t", ";">>
  ELSE IF c = ">" THEN <<"&", "g", "t", ";">>
  ELSE IF c = "\"" THEN <<"&", "q", "u", "o", "t", ";">>
  ELSE IF c = "'" THEN <<"&", "#", "3", "9", ";">>
  ELSE <<c>>

RECURSIVE EachReplaced(_)
\* every character of s replaced by its entity
EachReplaced(s) ==
  IF s = <<>> THEN <<>> ELSE EntityOf(Head(s)) \o EachReplaced(Tail(s))

\* one of the five entities stands at position i of s
EntityAt(s, i) ==
  \E c \in {"&", "<", ">", "\"", "'"} :
    /\ i + Len(EntityOf(c)) - 1 <= Len(s)
    /\ SubSeq(s, i, i + Len(EntityOf(c)) - 1) = EntityOf(c)

\* C23: escapeHtmlContent replaces every &, <, >, double quote and single
\* quote by &amp;, &lt;, &gt;, &quot; and &#39;, each character once: the
\* output has none of < > " ', every & of it begins one of the five
\* entities, and the & of an entity of the input is escaped again (&lt;
\* becomes &amp;lt;).
C23_EscapeFiveCharacters ==
  pc = "escape" =>
    /\ escaped = EachReplaced(text)
    /\ \A i \in 1..Len(escaped) :
         /\ escaped[i] \notin {"<", ">", "\"", "'"}
         /\ escaped[i] = "&" => EntityAt(escaped, i)
    /\ \A i \in 1..Len(text) :
         (i + 3 <= Len(text) /\ SubSeq(text, i, i + 3) = <<"&", "l", "t", ";">>)
           => \E j \in 1..Len(escaped) :
                /\ j + 7 <= Len(escaped)
                /\ SubSeq(escaped, j, j + 7) =
                     <<"&", "a", "m", "p", ";", "l", "t", ";">>

\* C23 witness: a text with an entity, a tag bracket and a quote was
\* escaped; the entity's ampersand was escaped again
C23_Witness ==
  /\ pc = "escape"
  /\ text = <<"&", "l", "t", ";", "<", "'">>
  /\ escaped = <<"&", "a", "m", "p", ";", "l", "t", ";",
                 "&", "l", "t", ";", "&", "#", "3", "9", ";">>

\* the text of a child element, none when the element is absent
TextOf(v) == IF v.kind = "absent" THEN <<>> ELSE v.text

\* the description of a parsed entry: the summary of an Atom entry; the
\* summary of an RSS item, or its description when it has no summary text
DescriptionText(e) ==
  IF feedXml.root = "rss" /\ TextOf(e.summary) = <<>>
  THEN TextOf(e.description)
  ELSE TextOf(e.summary)

\* the content field of an entry: content (Atom), content:encoded (RSS)
ContentField(e) == IF feedXml.root = "rss" THEN e.encoded ELSE e.content

\* C26: an entry or item that already has a content field (content for
\* Atom, content:encoded for RSS): when its description has a second part
\* that is not empty, the field's body is that remainder after the
\* transform, the original content gone; when the description has no second
\* part, the field is as it was.
C26_ExistingContentField ==
  (Returned /\ feedXml.root \in {"feed", "rss"}) =>
    \A k \in 1..Len(feedXml.entries) :
      LET before == ParsedEntry(k)
          after  == feed.entries[k]
          sp     == splitAtFirstParagraph(DescriptionText(before))
      IN  ContentField(before) # Absent =>
            /\ sp.secondPart # <<>> =>
                 /\ ContentField(after) # Absent
                 /\ ContentField(after).text = sp.secondPart
            /\ sp.secondPart = <<>> =>
                 ContentField(after) = ContentField(before)

\* C27: every Atom entry whose summary has text, however the summary was
\* parsed (a string, the first of several summary elements, an element with
\* attributes), ends with summary equal to the tag-stripped first paragraph
\* of that text.
C27_SummaryHoweverParsed ==
  AtomDone =>
    \A k \in 1..Len(feedXml.entries) :
      LET before == ParsedEntry(k)
          sp     == splitAtFirstParagraph(TextOf(before.summary))
      IN  TextOf(before.summary) # <<>> =>
            feed.entries[k].summary = Str(stripHtmlTags(sp.firstParagraph))

\* C28: an RSS document none of whose items received content:encoded has,
\* after the transform, the attributes of its rss root exactly as they were:
\* xmlns:content is declared only when an item requires it.
C28_NamespaceOnlyWhenRequired ==
  (RssDone /\ \A k \in 1..Len(feed.entries) : ~ReceivedEncoded(k)) =>
    feed.attrs = feedXml.attrs

(***************************************************************************)
(* Claims on the order of the handler's steps, checked under FetchSpec.    *)
(***************************************************************************)
\* the response is the JSON error of this status with exactly this message
IsErrorResponse(statusCode, error) ==
  /\ response.statusCode = statusCode
  /\ response.body.kind = "json"
  /\ response.body.error = error

\* the four checks in their order: which is the first the request fails,
\* 0 when it passes them all
FirstFailingCheck ==
  IF Falsy(request.feedUrl) THEN 1
  ELSE IF Falsy(request.hash) THEN 2
  ELSE IF ~HasValidFeedUrl THEN 3
  ELSE IF HasSecret /\ ~HasMatchingHash THEN 4
  ELSE 0

C29_WitnessFeedReturned ==
  /\ Responded
  /\ HasSecret
  /\ HasMatchingHash
  /\ response.statusCode = 200
  /\ fetchCalls = 1
  /\ timer = "cleared"
  /\ response.body.string.result = "built"
====
